---- MODULE Spec2Model ----
(***************************************************************************)
(* Weekly chart ingestion of scripts/1_descargar.py and                    *)
(* scripts/1_download.py: the SQLite files they write, the backups they    *)
(* keep, and the control flow of their main() functions.                   *)
(*                                                                         *)
(* Conventions                                                             *)
(*  - Text is a sequence of code points (<<90, 111, 111>> is "Zoo"), so    *)
(*    that slicing and concatenation are computed as Python computes them. *)
(*  - A Python value is a record [t |-> type, v |-> payload].              *)
(*  - Time is a count of ticks; a timestamp rendered with strftime down to *)
(*    the second is represented by the tick it renders.                    *)
(*  - hashlib.md5 is taken to be collision free: the digest of a text is   *)
(*    represented by a tagged copy of the text it digests.                 *)
(***************************************************************************)
EXTENDS Integers, Sequences, FiniteSets, TLC

\* ------------------------------------------------------------------ bounds
\* Ticks in one ISO week.
TicksPerWeek == 2
\* The tick at which the exploration of update_sqlite_database stops.
MaxClockUpdate == 4
\* The tick at which the exploration of backup_database stops.
MaxClockBackup == 7
\* The tick at which the exploration of main() stops.
MaxClockMain == 3
\* The tick at which the exploration of the duplicate check stops.
MaxClockHash == 3
\* The tick at which the exploration of 1_download.py stops.
MaxClockDownload == 3
\* The ticks from which the times of the calls of cleanup_old_databases are
\* drawn, and the weeks of the databases they find.
MaxClockCleanup == 16
\* The tick at which the exploration of cleanup_old_backups stops.
MaxClockOldBackups == 4
\* The most elements the scan of all buttons finds on the page.
MaxButtons == 2

\* -------------------------------------------------------- Python values
PyNone == [t |-> "none", v |-> <<>>]
PyStr(s) == [t |-> "str", v |-> s]
PyTuple(s) == [t |-> "tuple", v |-> s]
\* pandas reads an empty cell as the float nan
PyNaN == [t |-> "float", v |-> <<110, 97, 110>>]

\* bool(x) for the values above: None, '' and () are false, nan is true
Truthy(x) == x.t = "float" \/ (x.t \in {"str", "tuple"} /\ Len(x.v) > 0)

\* x[0]: the first item of a tuple, the first character of a str
Item0(x) == IF x.t = "str" THEN PyStr(<<x.v[1]>>) ELSE x.v[1]

\* s[:n]
Slice(s, n) == SubSeq(s, 1, IF Len(s) < n THEN Len(s) ELSE n)

\* str(n) for a natural number: its decimal digits
RECURSIVE Digits(_)
Digits(n) == IF n < 10 THEN <<48 + n>> ELSE Digits(n \div 10) \o <<48 + (n % 10)>>

\* int(text) for a text of decimal digits
RECURSIVE ParseInt(_)
ParseInt(s) ==
  IF Len(s) = 0 THEN 0
  ELSE 10 * ParseInt(SubSeq(s, 1, Len(s) - 1)) + (s[Len(s)] - 48)

\* ------------------------------------------------------ 1_descargar.py
\* get_week_identifier(): f"{year}-W{week:02d}" of the ISO calendar, which
\* names each week of the time line by one identifier.
get_week_identifier(now) == now \div TicksPerWeek

\* A chart row as pandas reads it from the CSV.  Download_Date is the extra
\* column only the fallback file carries (PyNone: the column is absent).
Row(rank, track, artist, views) ==
  [Rank |-> rank, Track |-> track, Artist |-> artist, Views |-> views,
   Download_Date |-> PyNone]

\* head(10) and the [:20] slices of calculate_week_hash
HashRows == 10
HashChars == 20

\* f"{row['Rank']}_{row['Track Name'][:20]}_{row['Artist Names'][:20]}_{row['Views']}"
RowKey(row) ==
  Digits(row.Rank) \o <<95>> \o Slice(row.Track.v, HashChars) \o <<95>>
    \o Slice(row.Artist.v, HashChars) \o <<95>> \o Digits(row.Views)

RECURSIVE WeekData(_)
WeekData(rows) ==
  IF rows = <<>> THEN <<>> ELSE RowKey(Head(rows)) \o WeekData(Tail(rows))

\* hashlib.md5(week_data.encode()).hexdigest()[:16]
Md5Hex16(text) == [t |-> "str", v |-> <<0>> \o text]

\* calculate_week_hash(df): None when building the text raises (a cell that
\* is not a str cannot be sliced)
calculate_week_hash(rows) ==
  LET head == Slice(rows, HashRows) IN
  IF \E i \in 1..Len(head) : head[i].Track.t # "str" \/ head[i].Artist.t # "str"
  THEN PyNone
  ELSE Md5Hex16(WeekData(head))

\* ------------------------------------------------------- the CSV inputs
\* A CSV file: whether pd.read_csv can parse it, whether its bytes are UTF-8
\* text, whether it carries the Download_Date column, and its rows.
Csv(rows) == [readable |-> TRUE, utf8 |-> TRUE, has_dd |-> FALSE, rows |-> rows]

\* "Zoo" by "Abba", and the same chart with other views in its second row
ChartA ==
  Csv(<<Row(1, PyStr(<<90, 111, 111>>), PyStr(<<65, 98, 98, 97>>), 12),
        Row(2, PyStr(<<80, 97, 108>>), PyStr(<<65, 98, 98, 97>>), 7)>>)
ChartB ==
  Csv(<<Row(1, PyStr(<<90, 111, 111>>), PyStr(<<65, 98, 98, 97>>), 12),
        Row(2, PyStr(<<80, 97, 108>>), PyStr(<<65, 98, 98, 97>>), 9)>>)
\* a chart whose only row has an empty Track Name cell
ChartNaN ==
  Csv(<<Row(1, PyNaN, PyStr(<<65, 98, 98, 97>>), 12)>>)
\* a path pd.read_csv cannot read: no file, or an empty one
Unreadable == [readable |-> FALSE, utf8 |-> TRUE, has_dd |-> FALSE, rows |-> <<>>]
\* "Caf\xe9" by "Abba" in a file encoded as latin-1: its bytes are no UTF-8 text
ChartLatin1 ==
  [Csv(<<Row(1, PyStr(<<67, 97, 102, 233>>), PyStr(<<65, 98, 98, 97>>), 12)>>)
     EXCEPT !.utf8 = FALSE]

\* pd.read_csv(csv_path, encoding='utf-8') returns a frame
ReadsUtf8(csv) == csv.readable /\ csv.utf8

Charts == {ChartA, ChartB, ChartNaN, ChartLatin1, Unreadable}

\* "Never Gonna Give You Up" by "Rick Astley", and its "(Live)" version with
\* the same views: the names agree on their first 20 characters
ChartUp ==
  Csv(<<Row(1, PyStr(<<78, 101, 118, 101, 114, 32, 71, 111, 110, 110, 97, 32, 71, 105, 118, 101, 32, 89, 111, 117, 32, 85, 112>>),
            PyStr(<<82, 105, 99, 107, 32, 65, 115, 116, 108, 101, 121>>), 12)>>)
ChartUpLive ==
  Csv(<<Row(1, PyStr(<<78, 101, 118, 101, 114, 32, 71, 111, 110, 110, 97, 32, 71, 105, 118, 101, 32, 89, 111, 117, 32, 85, 112>> \o <<32, 40, 76, 105, 118, 101, 41>>),
            PyStr(<<82, 105, 99, 107, 32, 65, 115, 116, 108, 101, 121>>), 12)>>)

\* two charts of eleven songs "S1".."S11" that differ in the views of the
\* eleventh
ElevenSongs(last_views) ==
  Csv([i \in 1..(HashRows + 1) |->
         Row(i, PyStr(<<83>> \o Digits(i)), PyStr(<<65, 98, 98, 97>>),
             IF i = HashRows + 1 THEN last_views ELSE 20 - i)])
ChartEleven == ElevenSongs(9)
ChartElevenB == ElevenSongs(8)

\* the charts the duplicate check is explored on
HashCharts == {ChartA, ChartB, ChartUp, ChartUpLive, ChartEleven, ChartElevenB}

\* str(week_info) of the two callers: the default None, and "Fallback Week"
WeekInfoNone == <<78, 111, 110, 101>>
WeekInfoFallback == <<70, 97, 108, 108, 98, 97, 99, 107, 32, 87, 101, 101, 107>>

\* ------------------------------------------- databases/charts_database.db
\* The file before it exists, and just after sqlite3.connect and CREATE
\* TABLE IF NOT EXISTS week_control made it.
NoDatabase ==
  [exists |-> FALSE, mtime |-> 0,
   week_control |-> {},
   historical_exists |-> FALSE,
   historical_charts |-> <<>>,
   weekly |-> <<>>,
   weekly_charts |-> <<>>]

\* the rows df holds once the metadata columns are added (year, month and
\* week_number are renderings of the same current_time as download_date)
StoredRows(rows, now, week_hash) ==
  [i \in 1..Len(rows) |->
     [Rank |-> rows[i].Rank, Track |-> rows[i].Track, Artist |-> rows[i].Artist,
      Views |-> rows[i].Views, Download_Date |-> rows[i].Download_Date,
      download_date |-> now, week_identifier |-> get_week_identifier(now),
      week_hash |-> week_hash]]

\* df[['Rank', 'Track Name', 'Artist Names', 'Views', 'download_date']]
SummaryRows(rows, now) ==
  [i \in 1..Len(rows) |->
     [Rank |-> rows[i].Rank, Track |-> rows[i].Track, Artist |-> rows[i].Artist,
      Views |-> rows[i].Views, download_date |-> now]]

\* df['Views'].sum()
RECURSIVE SumViews(_)
SumViews(rows) == IF rows = <<>> THEN 0 ELSE Head(rows).Views + SumViews(Tail(rows))

\* (mutant) the duplicate check never finds the hash
HashNeverKnown(d, week_hash) == FALSE

\* SELECT week_identifier FROM week_control WHERE week_hash = ?
HashKnown(d, week_hash) ==
  Truthy(week_hash) /\ \E r \in d.week_control : r.week_hash = week_hash

\* INSERT OR REPLACE INTO week_control: the new row displaces the rows that
\* clash with it on the primary key or on the unique week_hash (NULLs never
\* clash)
InsertOrReplace(control, row) ==
  {r \in control :
     /\ r.week_identifier # row.week_identifier
     /\ ~(row.week_hash # PyNone /\ r.week_hash = row.week_hash)} \cup {row}

\* the weekly_<year>_w<nn> tables, kept as a list of [week, rows] with one
\* entry per table name; to_sql(if_exists='replace') rewrites the week's
ReplaceWeekly(weekly, week, rows) ==
  SelectSeq(weekly, LAMBDA e : e.week # week) \o <<[week |-> week, rows |-> rows]>>

\* What INSERT INTO historical_charts stores of the rows of a frame that
\* carries Download_Date when the table has no such column: SQLite matches
\* the name to the column download_date, whatever the case, and of the two
\* values given for it keeps the first, that of Download_Date.
InsertedRows(stored) ==
  [i \in 1..Len(stored) |->
     [stored[i] EXCEPT !.Download_Date = PyNone,
                       !.download_date = ParseInt(stored[i].Download_Date.v)]]

\* update_sqlite_database(csv_path, week_info) at time now on database d:
\* the database it leaves and the value it returns
descargar_update_sqlite_database(d, csv, week_info, now) ==
  LET week_identifier == get_week_identifier(now)
      week_hash == calculate_week_hash(csv.rows)
      connected == IF d.exists THEN d
                   ELSE [NoDatabase EXCEPT !.exists = TRUE, !.mtime = now]
      stored == StoredRows(csv.rows, now, week_hash)
  IN
  IF ~ReadsUtf8(csv) THEN [db |-> d, ret |-> "None"]
  ELSE IF HashKnown(connected, week_hash) THEN [db |-> connected, ret |-> "db_path"]
  ELSE IF csv.has_dd /\ ~connected.historical_exists
       \* to_sql(append) has to create the table: SQLite refuses the columns
       \* Download_Date and download_date ("duplicate column name")
       THEN [db |-> connected, ret |-> "None"]
  ELSE IF csv.has_dd
       \* the rows are appended and committed; then to_sql(replace) drops
       \* the week's table and fails to create it anew, as above
       THEN [db |->
               [connected EXCEPT
                  !.mtime = now,
                  !.historical_charts = @ \o InsertedRows(stored),
                  !.weekly = SelectSeq(@, LAMBDA e : e.week # week_identifier)],
             ret |-> "None"]
  ELSE [db |->
          [exists |-> TRUE, mtime |-> now,
           week_control |->
             InsertOrReplace(connected.week_control,
               [week_identifier |-> week_identifier, week_hash |-> week_hash,
                download_date |-> now, week_info |-> week_info,
                total_records |-> Len(csv.rows),
                total_views |-> SumViews(csv.rows)]),
           historical_exists |-> TRUE,
           historical_charts |-> connected.historical_charts \o stored,
           weekly |-> ReplaceWeekly(connected.weekly, week_identifier, stored),
           weekly_charts |-> SummaryRows(csv.rows, now)],
        ret |-> "db_path"]

\* ------------------------------------- databases/charts_database_backup_*
\* A backup file: its name carries the timestamp of the call that made it;
\* shutil.copy2 copies the database's contents and its modification time.
BackupFile(d, now) == [name |-> now, content |-> d]

\* os.path.getmtime of a backup
getmtime(b) == b.content.mtime

\* the orders in which DATABASE_DIR.glob may list a set of files
RECURSIVE Listings(_)
Listings(files) ==
  IF files = {} THEN {<<>>}
  ELSE UNION {{<<f>> \o rest : rest \in Listings(files \ {f})} : f \in files}

\* sorted(listing, key=os.path.getmtime): a stable sort
RECURSIVE InsertByMtime(_, _)
InsertByMtime(sorted, f) ==
  IF sorted = <<>> THEN <<f>>
  ELSE IF getmtime(sorted[Len(sorted)]) <= getmtime(f) THEN Append(sorted, f)
  ELSE Append(InsertByMtime(SubSeq(sorted, 1, Len(sorted) - 1), f), sorted[Len(sorted)])

RECURSIVE SortedByMtime(_)
SortedByMtime(listing) ==
  IF listing = <<>> THEN <<>>
  ELSE InsertByMtime(SortedByMtime(SubSeq(listing, 1, Len(listing) - 1)),
                     listing[Len(listing)])

\* "Mantener solo los ultimos 5 backups"
KeepBackups == 5

\* (mutant) the rotation starts one file late: "if len(backups) > 6"
OldBackupsLate(sorted) ==
  IF Len(sorted) > KeepBackups + 1
  THEN {sorted[i] : i \in 1..(Len(sorted) - KeepBackups)}
  ELSE {}

\* backups[:-5] when len(backups) > 5
OldBackups(sorted) ==
  IF Len(sorted) > KeepBackups
  THEN {sorted[i] : i \in 1..(Len(sorted) - KeepBackups)}
  ELSE {}

\* How shutil.copy2 can end: the copy is made; it raises before the
\* destination exists (a directory that cannot be written); it raises after
\* writing part of it (a full disk), which leaves a truncated file whose
\* modification time is that of the failed copy.
CopyOutcomes == {"ok", "fails", "truncated"}

\* the truncated file a failed copy leaves: no table can be read from it
TruncatedCopy(now) == [NoDatabase EXCEPT !.mtime = now]

\* the files of the directory once a failed shutil.copy2 left its part of
\* backup_path
WithTruncated(files, now) ==
  {b \in files : b.name # now} \cup {[name |-> now, content |-> TruncatedCopy(now)]}

\* the files of the directory once shutil.copy2 wrote backup_path
WithBackup(files, d, now) ==
  {b \in files : b.name # now} \cup {BackupFile(d, now)}

\* backup_database() at time now: the backups it leaves, the value it
\* returns, the file it made and the files it unlinked.  copy is how
\* shutil.copy2 ends; listing is the order glob lists the backups in.
backup_database(d, files, now, copy, listing) ==
  IF ~d.exists \/ copy = "fails"
  THEN [backups |-> files, ret |-> "None", removed |-> {}]
  ELSE IF copy = "truncated"
  THEN [backups |-> WithTruncated(files, now), ret |-> "None", removed |-> {}]
  ELSE LET old == OldBackups(SortedByMtime(listing))
       IN [backups |-> WithBackup(files, d, now) \ old,
           ret |-> "backup_path", removed |-> {b.name : b \in old}]

\* ------------------------------------------------------- the calendar
\* date.toordinal() of the last day before year y (proleptic Gregorian)
DaysBeforeYear(y) ==
  (y - 1) * 365 + (y - 1) \div 4 - (y - 1) \div 100 + (y - 1) \div 400

\* the year of the day with ordinal n
YearOf(n) ==
  CHOOSE y \in (n \div 366)..(n \div 365 + 1) :
    DaysBeforeYear(y) < n /\ n <= DaysBeforeYear(y + 1)

\* date.weekday(): 0 is Monday
weekday(n) == (n + 6) % 7

\* date.isocalendar(): the ISO year and week of the day with ordinal n, which
\* are those of the Thursday of its week
isocalendar(n) ==
  LET thursday == n - weekday(n) + 3
      year == YearOf(thursday)
  IN  [year |-> year, week |-> (thursday - DaysBeforeYear(year) - 1) \div 7 + 1]

\* The day tick 0 starts: Monday 2 December 2024, 30 days before 1 January
\* 2025.  Weeks 0 to 3 are 2024-W49 to 2024-W52, week 4 is 2025-W01.
EpochDay == DaysBeforeYear(2025) + 1 - 30

\* datetime.now().date() at tick now, as an ordinal
DayOfTick(now) == EpochDay + (7 * now) \div TicksPerWeek

\* ---------------------------------------------- click_download_button()
\* f"Week {week_number}, {year}", the text get_current_week falls back on
\* (the ISO week number next to the calendar year of the day)
WeekInfoText(now) ==
  <<87, 101, 101, 107, 32>> \o Digits(isocalendar(DayOfTick(now)).week)
    \o <<44, 32>> \o Digits(YearOf(DayOfTick(now)))

\* OUTPUT_DIR / f"youtube_top_songs_{timestamp}.csv", as str(filename)
DownloadPath(now) ==
  <<100, 97, 116, 97, 47, 121, 111, 117, 116, 117, 98, 101, 95, 116, 111, 112,
    95, 115, 111, 110, 103, 115, 95>> \o Digits(now) \o <<46, 99, 115, 118>>

\* handle_download: str(filename) once the file is saved, None on an error
handle_download(saved, now) ==
  IF saved THEN PyStr(DownloadPath(now)) ELSE PyNone

\* the text of a page element that names the week, as get_current_week
\* returns it stripped: "Dec 6 - Dec 12, 2024"
PageWeekText ==
  <<68, 101, 99, 32, 54, 32, 45, 32, 68, 101, 99, 32, 49, 50, 44, 32, 50, 48,
    50, 52>>

\* What can happen inside click_download_button.  When no control delivers
\* a file, get_current_week returns the text of a page element
\* ("no_control_page_week"), the computed text ("no_control") or None.
ClickOutcomes ==
  {"import_error", "no_control", "no_control_page_week", "no_control_no_week",
   "handle_error", "exception", "downloaded"}

\* the ways it fails to deliver a file
ClickFailures == ClickOutcomes \ {"downloaded"}

\* the value click_download_button returns
click_download_button(outcome, now) ==
  CASE outcome = "import_error" -> PyTuple(<<PyNone, PyNone>>)
    [] outcome = "exception" -> PyTuple(<<PyNone, PyNone>>)
    [] outcome = "no_control" -> PyTuple(<<PyNone, PyStr(WeekInfoText(now))>>)
    [] outcome = "no_control_page_week" -> PyTuple(<<PyNone, PyStr(PageWeekText)>>)
    [] outcome = "no_control_no_week" -> PyTuple(<<PyNone, PyNone>>)
    [] outcome = "handle_error" -> handle_download(FALSE, now)
    [] outcome = "downloaded" -> handle_download(TRUE, now)

\* ------------------------------------------------- create_fallback_file()
FbRow(rank, track, artist, views, dd) ==
  [Rank |-> rank, Track |-> PyStr(track), Artist |-> PyStr(artist),
   Views |-> views, Download_Date |-> dd]

\* the five hardcoded rows, with the Download_Date column it adds
FallbackRows(dd) == <<
  \* Golden / HUNTR/X & EJAE & AUDREY NUNA & REI AMI & KPop Demon Hunters Cast
  FbRow(1, <<71, 111, 108, 100, 101, 110>>,
        <<72, 85, 78, 84, 82, 47, 88, 32, 38, 32, 69, 74, 65, 69, 32, 38, 32, 65,
          85, 68, 82, 69, 89, 32, 78, 85, 78, 65, 32, 38, 32, 82, 69, 73, 32, 65,
          77, 73, 32, 38, 32, 75, 80, 111, 112, 32, 68, 101, 109, 111, 110, 32,
          72, 117, 110, 116, 101, 114, 115, 32, 67, 97, 115, 116>>,
        57046376, dd),
  \* Zoo / Shakira
  FbRow(2, <<90, 111, 111>>, <<83, 104, 97, 107, 105, 114, 97>>, 33072035, dd),
  \* Shararat / Shashwat Sachdev & Madhubanti Bagchi & Jasmine Sandlas
  FbRow(3, <<83, 104, 97, 114, 97, 114, 97, 116>>,
        <<83, 104, 97, 115, 104, 119, 97, 116, 32, 83, 97, 99, 104, 100, 101, 118,
          32, 38, 32, 77, 97, 100, 104, 117, 98, 97, 110, 116, 105, 32, 66, 97,
          103, 99, 104, 105, 32, 38, 32, 74, 97, 115, 109, 105, 110, 101, 32, 83,
          97, 110, 100, 108, 97, 115>>,
        32271534, dd),
  \* NO BATIDAO (A with tilde) / ZXKAI & slxughter
  FbRow(4, <<78, 79, 32, 66, 65, 84, 73, 68, 195, 79>>,
        <<90, 88, 75, 65, 73, 32, 38, 32, 115, 108, 120, 117, 103, 104, 116, 101,
          114>>,
        30928663, dd),
  \* Pal Pal / Afusic & AliSoomroMusic
  FbRow(5, <<80, 97, 108, 32, 80, 97, 108>>,
        <<65, 102, 117, 115, 105, 99, 32, 38, 32, 65, 108, 105, 83, 111, 111, 109,
          114, 111, 77, 117, 115, 105, 99>>,
        27554912, dd) >>

\* the CSV create_fallback_file writes at time now
descargar_create_fallback_file(now) ==
  [readable |-> TRUE, utf8 |-> TRUE, has_dd |-> TRUE,
   rows |-> FallbackRows(PyStr(Digits(now)))]

\* --------------------------------------------------------- 1_download.py
\* the number of rows create_fallback_file generates: range(1, 101)
FallbackSongs == 100

\* f'Popular Song {i}'
PopularSong(i) ==
  <<80, 111, 112, 117, 108, 97, 114, 32, 83, 111, 110, 103, 32>> \o Digits(i)

\* f'Artist {chr(65 + ((i-1) % 26))} and Collaborators'
ArtistOf(i) ==
  <<65, 114, 116, 105, 115, 116, 32>> \o <<65 + ((i - 1) % 26)>>
    \o <<32, 97, 110, 100, 32, 67, 111, 108, 108, 97, 98, 111, 114, 97, 116,
         111, 114, 115>>

\* the CSV create_fallback_file of 1_download.py writes
download_create_fallback_file ==
  Csv([i \in 1..FallbackSongs |->
         Row(i, PyStr(PopularSong(i)), PyStr(ArtistOf(i)),
             5000000 + (100 - i) * 50000)])

\* install_playwright(): what it returns, or that it raises.  import_ok is
\* whether "python -c 'import playwright'" exits with 0, dry_run_ok whether
\* "playwright install --dry-run" does, install is how "playwright install
\* chromium" ends: "0", "1", or "missing" when the executable is not found.
install_playwright(import_ok, dry_run_ok, install) ==
  IF ~import_ok
  THEN "raise"  \* CalledProcessError is not the ImportError the handler names
  ELSE IF dry_run_ok THEN "True"
  ELSE IF install = "missing" THEN "raise"  \* FileNotFoundError in the handler
  ELSE IF install = "0" THEN "True"
  ELSE "False"

InstallResults == {"0", "1", "missing"}

\* What download_youtube_charts can end with: a file saved as
\* charts_archive/1_download-chart/latest_chart.csv and returned, a file
\* saved that it then fails to read back, no button that yields a download,
\* or an exception.
DownloadOutcomes == {"saved", "saved_unread", "not_found", "exception"}

\* the value download_youtube_charts returns
download_youtube_charts(o) == IF o = "saved" THEN "latest_chart.csv" ELSE "None"

\* A week's database file youtube_charts_<week_id>.db
DlFile(rows, now) == [mtime |-> now, chart_data |-> rows]

\* df with download_date, download_time, week_id and timestamp added (the
\* first, second and fourth render the same current_time)
DlStoredRows(rows, week_id, now) ==
  [i \in 1..Len(rows) |->
     [Rank |-> rows[i].Rank, Track |-> rows[i].Track, Artist |-> rows[i].Artist,
      Views |-> rows[i].Views, week_id |-> week_id, timestamp |-> now]]

\* the databases once update_sqlite_database has connected, filled the
\* temporary table and inserted it into chart_data or renamed it to it
DlWritten(dbs, csv, week_id, now) ==
  [w \in DOMAIN dbs \cup {week_id} |->
     IF w # week_id THEN dbs[w]
     ELSE IF week_id \in DOMAIN dbs
          THEN \* INSERT INTO chart_data SELECT * FROM temp
               DlFile(dbs[w].chart_data \o DlStoredRows(csv.rows, week_id, now), now)
          ELSE \* ALTER TABLE temp RENAME TO chart_data
               DlFile(DlStoredRows(csv.rows, week_id, now), now)]

\* create_backup_before_update(week_id): the backup directory it leaves;
\* when shutil.copy2 raises, the error is printed and nothing else happens:
\* the directory is as it was, or holds the truncated file of the failed
\* copy (no row can be read from it, its modification time is the copy's)
create_backup_before_update(dbs, files, week_id, now, copy) ==
  IF week_id \notin DOMAIN dbs \/ copy = "fails"
  THEN files
  ELSE {b \in files : ~(b.week = week_id /\ b.name = now)}
         \cup {[week |-> week_id, name |-> now,
                content |-> IF copy = "ok" THEN dbs[week_id]
                            ELSE DlFile(<<>>, now)]}

\* cleanup_old_backups(days): the files whose st_mtime is not before the
\* cutoff; `age` is `days` in ticks
cleanup_old_backups(files, now, age) ==
  {b \in files : ~(b.content.mtime < now - age)}

\* f"{week_num:02d}"
Pad2(n) == IF n < 10 THEN <<48>> \o Digits(n) ELSE Digits(n)

\* get_week_identifier(date) of 1_download.py: f"{year}-W{week_num:02d}"
WeekIdText(n) ==
  Digits(isocalendar(n).year) \o <<45, 87>> \o Pad2(isocalendar(n).week)

\* the <week_id> in the name youtube_charts_<week_id>.db of the database
\* of the week that starts `week` weeks after tick 0
WeekName(week) == WeekIdText(EpochDay + 7 * week)

\* year, week = map(int, week_id.split("-W"))
SplitWeekId(s) ==
  LET i == CHOOSE j \in 1..(Len(s) - 1) : s[j] = 45 /\ s[j + 1] = 87
  IN  [year |-> ParseInt(SubSeq(s, 1, i - 1)),
       week |-> ParseInt(SubSeq(s, i + 2, Len(s)))]

\* (mutant) the weeks are counted from the one before the first Monday
strptimeWeekEarly(year, week) ==
  LET first_weekday == weekday(DaysBeforeYear(year) + 1)
  IN  DaysBeforeYear(year) + 1 + ((7 - first_weekday) % 7) + 7 * (week - 2)

\* datetime.strptime(f"{year}-W{week:02d}-1", "%Y-W%W-%w"), as an ordinal:
\* %W counts the weeks from the first Monday of the calendar year, the days
\* before it being week 0 (_strptime._calc_julian_from_U_or_W)
strptime(year, week) ==
  LET first_weekday == weekday(DaysBeforeYear(year) + 1)
      week_0_length == (7 - first_weekday) % 7
      julian == IF week = 0 THEN 1 - first_weekday
                ELSE 1 + week_0_length + 7 * (week - 1)
  IN  DaysBeforeYear(year) + julian

\* db_date of cleanup_old_databases for the database of a week, in ticks
\* since tick 0
WeekDate(week_id) ==
  LET name == SplitWeekId(WeekName(week_id))
  IN  ((strptime(name.year, name.week) - EpochDay) * TicksPerWeek) \div 7

\* cleanup_old_databases(weeks): the databases it does not unlink
cleanup_old_databases(dbs, now, weeks) ==
  [w \in {x \in DOMAIN dbs : ~(WeekDate(x) < now - weeks * TicksPerWeek)} |-> dbs[w]]

\* cleanup_old_backups(7) and cleanup_old_databases(52) of main()
BackupDays == 7
DatabaseWeeks == 52

\* ------------------------------------------------------------------ state
VARIABLES
  clock,        \* the current time, in ticks
  db,           \* databases/charts_database.db
  backups,      \* the files databases/charts_database_backup_*.db
  call,         \* the last call of update_sqlite_database or backup_database
  pc,           \* where main() of 1_descargar.py stands
  outcome,      \* what happened inside click_download_button in this run
  result,       \* the value click_download_button returned
  download,     \* the CSV the browser saved, when it saved one
  calls,        \* the functions main() has called in this run, in order
  exit_status,  \* the exit status of the run
  dl_dbs,       \* 1_download: the files databases/youtube_charts_<week_id>.db
  dl_backups,   \* 1_download: the files backup/backup_<week_id>_<timestamp>.db
  dl_latest,    \* 1_download: the file latest_chart.csv
  dl_upd,       \* 1_download: the call of update_sqlite_database under way
  dl_prev,      \* 1_download: the call of update_sqlite_database before it
  dl_pc,        \* 1_download: where main() stands
  dl_ready,     \* 1_download: how install_playwright ended in this run
  dl_downloaded, \* 1_download: what download_youtube_charts returned
  dl_csv_path,  \* 1_download: csv_path of main()
  dl_calls,     \* 1_download: the functions main() has called, in order
  dl_exit,      \* 1_download: the exit status of the run
  dl_clean,     \* 1_download: the last call of a cleanup function on its own
  dl_try        \* 1_download: the call of download_youtube_charts on its own

dlFiles == <<dl_dbs, dl_backups, dl_latest>>
dlMain == <<dl_pc, dl_ready, dl_downloaded, dl_csv_path, dl_calls, dl_exit>>
dlCalls == <<dl_clean, dl_try>>
dlVars == <<dlFiles, dl_upd, dl_prev, dlMain, dlCalls>>

vars == <<clock, db, backups, call, pc, outcome, result, download, calls,
          exit_status, dlVars>>

mainVars == <<pc, outcome, result, download, calls, exit_status>>

NoCall == [op |-> "none", at |-> -1, csv |-> Unreadable, week |-> 0,
           ret |-> "None", known |-> FALSE, made |-> 0, removed |-> {}]

\* no cleanup function of 1_download.py was called on its own yet
NoClean == [op |-> "none", arg |-> 0, at |-> -1, dbs |-> {}, backups |-> {}]

\* download_youtube_charts was not called on its own yet.  pc is where the
\* call stands, tried the strategies it has attempted, in order, saved the
\* strategies that saved latest_chart.csv, closed whether browser.close()
\* was awaited, buttons the elements the scan has still to look at, ends
\* how each attempt ended (what the call has printed tells them apart).
NoTry == [pc |-> "none", tried |-> <<>>, saved |-> <<>>, closed |-> FALSE,
          buttons |-> 0, ends |-> <<>>, ret |-> "None"]

\* no call of update_sqlite_database of 1_download.py was made yet
NoUpdate == [pc |-> "none", csv |-> Unreadable, week_id |-> 0, caller |-> "none",
             ret |-> "None"]

Init ==
  /\ clock = 0
  /\ db = NoDatabase
  /\ backups = {}
  /\ call = NoCall
  /\ pc = "idle"
  /\ outcome = "none"
  /\ result = PyNone
  /\ download = Unreadable
  /\ calls = <<>>
  /\ exit_status = "none"
  /\ dl_dbs = <<>>
  /\ dl_backups = {}
  /\ dl_latest = [exists |-> FALSE, csv |-> Unreadable]
  /\ dl_upd = NoUpdate
  /\ dl_prev = NoUpdate
  /\ dl_pc = "idle"
  /\ dl_ready = "none"
  /\ dl_downloaded = "none"
  /\ dl_csv_path = "None"
  /\ dl_calls = <<>>
  /\ dl_exit = "none"
  /\ dl_clean = NoClean
  /\ dl_try = NoTry

\* the record of a call of update_sqlite_database on database d
UpdateCall(d, csv, now, r) ==
  [op |-> "update_sqlite_database", at |-> now, csv |-> csv,
   week |-> get_week_identifier(now), ret |-> r.ret,
   known |-> ReadsUtf8(csv) /\ HashKnown(d, calculate_week_hash(csv.rows)),
   made |-> 0, removed |-> {}]

\* the record of a call of backup_database
BackupCall(now, r) ==
  [op |-> "backup_database", at |-> now, csv |-> Unreadable,
   week |-> get_week_identifier(now), ret |-> r.ret, known |-> FALSE, made |-> now, removed |-> r.removed]

\* Time passes between calls, up to the tick horizon.
Tick(horizon) ==
  /\ pc = "idle"
  /\ clock < horizon
  /\ clock' = clock + 1
  /\ UNCHANGED <<db, backups, call, mainVars, dlVars>>

\* update_sqlite_database(csv) called on its own
UpdateSqliteDatabase(csv, horizon) ==
  /\ pc = "idle"
  /\ clock < horizon
  /\ LET r == descargar_update_sqlite_database(db, csv, WeekInfoNone, clock)
     IN /\ db' = r.db
        /\ call' = UpdateCall(db, csv, clock, r)
  /\ clock' = clock + 1
  /\ UNCHANGED <<backups, mainVars, dlVars>>

\* backup_database() called on its own
BackupDatabase(copy, horizon) ==
  /\ pc = "idle"
  /\ clock < horizon
  /\ \E listing \in Listings(WithBackup(backups, db, clock)) :
       LET r == backup_database(db, backups, clock, copy, listing)
       IN /\ backups' = r.backups
          /\ call' = BackupCall(clock, r)
  /\ clock' = clock + 1
  /\ UNCHANGED <<db, mainVars, dlVars>>

\* main(), "Paso 0": backup_database()
MainBackup(copy, horizon) ==
  /\ pc = "idle"
  /\ clock < horizon
  /\ \E listing \in Listings(WithBackup(backups, db, clock)) :
       LET r == backup_database(db, backups, clock, copy, listing)
       IN /\ backups' = r.backups
          /\ call' = BackupCall(clock, r)
  /\ pc' = "click"
  /\ calls' = <<"backup_database">>
  /\ UNCHANGED <<clock, db, outcome, result, download, exit_status, dlVars>>

\* main(), "Paso 1": asyncio.run(click_download_button())
MainClick(o, csv) ==
  /\ pc = "click"
  /\ outcome' = o
  /\ result' = click_download_button(o, clock)
  /\ download' = IF o = "downloaded" THEN csv ELSE Unreadable
  /\ calls' = Append(calls, "click_download_button")
  /\ pc' = "branch"
  /\ UNCHANGED <<clock, db, backups, call, exit_status, dlVars>>

\* (mutant) "if result": the test of result[0] is forgotten
DownloadSucceededAnyResult(res) == Truthy(res)

\* "if result and result[0] is not None"
DownloadSucceeded(res) == Truthy(res) /\ Item0(res) # PyNone

\* "csv_path, week_info = result" raises ValueError unless result has two items
Unpacks(res) == Len(res.v) = 2

\* str(week_info) of the unpacked result: the second item of a tuple, the
\* second character of a str of two
UnpackedWeekInfo(res) ==
  IF res.t = "str" THEN <<res.v[2]>>
  ELSE IF res.v[2].t = "str" THEN res.v[2].v
  ELSE WeekInfoNone

\* sys.exit(0) if main() returned a dictionary, sys.exit(1) if it returned
\* None; an exception that leaves main() ends the interpreter with status 1
ExitStatus(returned) == IF returned = "dict" THEN "0" ELSE "1"

\* main() from the test of result to the end of the process
MainBranch(fallback_ok) ==
  /\ pc = "branch"
  /\ IF DownloadSucceeded(result)
     THEN IF Unpacks(result)
          THEN \* Pasos 2 to 6, then the result dictionary
               LET r == descargar_update_sqlite_database(
                          db, download, UnpackedWeekInfo(result), clock)
               IN /\ db' = r.db
                  /\ call' = UpdateCall(db, download, clock, r)
                  /\ calls' = calls \o <<"save_raw_csv", "generate_analysis_csvs",
                                          "update_sqlite_database",
                                          "consolidate_weekly_data",
                                          "archive_for_long_term_storage">>
                  /\ exit_status' = ExitStatus("dict")
          ELSE \* ValueError leaves main()
               /\ calls' = calls
               /\ exit_status' = ExitStatus("raise")
               /\ UNCHANGED <<db, call>>
     ELSE IF fallback_ok
          THEN LET csv == descargar_create_fallback_file(clock)
                   r == descargar_update_sqlite_database(
                          db, csv, WeekInfoFallback, clock)
               IN /\ db' = r.db
                  /\ call' = UpdateCall(db, csv, clock, r)
                  /\ calls' = calls \o <<"create_fallback_file",
                                          "generate_analysis_csvs",
                                          "archive_for_long_term_storage",
                                          "update_sqlite_database">>
                  /\ exit_status' = ExitStatus("dict")
          ELSE \* create_fallback_file returned None: main returns None
               /\ calls' = Append(calls, "create_fallback_file")
               /\ exit_status' = ExitStatus("None")
               /\ UNCHANGED <<db, call>>
  /\ pc' = "exited"
  /\ clock' = clock + 1
  /\ UNCHANGED <<backups, outcome, result, download, dlVars>>

\* The process is gone: only the files remain for the next run.
ProcessEnds ==
  /\ pc = "exited"
  /\ pc' = "idle"
  /\ outcome' = "none"
  /\ result' = PyNone
  /\ download' = Unreadable
  /\ calls' = <<>>
  /\ exit_status' = "none"
  /\ UNCHANGED <<clock, db, backups, call, dlVars>>

\* update_sqlite_database called again and again, on any of the charts
NextUpdate ==
  \/ Tick(MaxClockUpdate)
  \/ \E csv \in Charts : UpdateSqliteDatabase(csv, MaxClockUpdate)

SpecUpdate == Init /\ [][NextUpdate]_vars

\* backup_database called again and again on a database that changes
NextBackup ==
  \/ UpdateSqliteDatabase(ChartNaN, MaxClockBackup)
  \/ \E copy \in CopyOutcomes : BackupDatabase(copy, MaxClockBackup)

SpecBackup == Init /\ [][NextBackup]_vars

\* runs of main(), with update_sqlite_database called between them
NextMain ==
  \/ Tick(MaxClockMain)
  \/ \E csv \in {ChartA, ChartNaN} : UpdateSqliteDatabase(csv, MaxClockMain)
  \/ \E copy \in CopyOutcomes : MainBackup(copy, MaxClockMain)
  \/ \E o \in ClickOutcomes : MainClick(o, ChartA)
  \/ \E fallback_ok \in BOOLEAN : MainBranch(fallback_ok)
  \/ ProcessEnds

SpecMain == Init /\ [][NextMain]_vars

\* calls of update_sqlite_database with charts that share their first ten
\* rows or the first 20 characters of their names
NextHash ==
  \/ Tick(MaxClockHash)
  \/ \E csv \in HashCharts : UpdateSqliteDatabase(csv, MaxClockHash)

SpecHash == Init /\ [][NextHash]_vars

\* ---------------------------------------------- actions of 1_download.py
descVars == <<db, backups, call, mainVars>>

\* no call of update_sqlite_database is under way
DlNoCall == dl_upd.pc \in {"none", "done"}

\* get_week_identifier() of 1_download.py
download_get_week_identifier(now) == now \div TicksPerWeek

\* Time passes between calls.
DlTick(horizon) ==
  /\ dl_pc = "idle" /\ DlNoCall
  /\ clock < horizon
  /\ clock' = clock + 1
  /\ UNCHANGED <<descVars, dlVars>>

\* update_sqlite_database(csv_path, week_id) up to sqlite3.connect: the CSV
\* is read (as latin-1 when its bytes are no UTF-8 text), and an existing
\* database is copied by create_backup_before_update
DlUpdateStart(csv, week_id, caller, copy) ==
  IF ~csv.readable
  THEN \* pd.read_csv raises, as UTF-8 and as latin-1: None is returned
       /\ dl_upd' = [pc |-> "done", csv |-> csv, week_id |-> week_id,
                     caller |-> caller, ret |-> "None"]
       /\ dl_prev' = dl_upd
       /\ UNCHANGED dlFiles
  ELSE /\ dl_backups' =
            create_backup_before_update(dl_dbs, dl_backups, week_id, clock, copy)
       /\ dl_upd' = [pc |-> "write", csv |-> csv, week_id |-> week_id,
                     caller |-> caller, ret |-> "None"]
       /\ dl_prev' = dl_upd
       /\ UNCHANGED <<dl_dbs, dl_latest>>

\* update_sqlite_database called on its own
DlUpdateSqliteDatabase(csv, week_id, copy, horizon) ==
  /\ dl_pc = "idle" /\ DlNoCall
  /\ clock < horizon
  /\ DlUpdateStart(csv, week_id, "caller", copy)
  /\ UNCHANGED <<clock, descVars, dlCalls, dlMain>>

\* update_sqlite_database from sqlite3.connect to its return
DlUpdateWrite ==
  /\ dl_upd.pc = "write"
  /\ dl_dbs' = DlWritten(dl_dbs, dl_upd.csv, dl_upd.week_id, clock)
  /\ dl_upd' = [dl_upd EXCEPT !.pc = "done", !.ret = "db_path"]
  \* main() goes on at the time of the write; time passes after a call
  \* made on its own
  /\ clock' = IF dl_upd.caller = "main" THEN clock ELSE clock + 1
  /\ UNCHANGED <<descVars, dlCalls, dl_backups, dl_latest, dl_prev, dlMain>>

\* main(): install_playwright()
DlMainInstall(import_ok, dry_run_ok, install, horizon) ==
  /\ dl_pc = "idle" /\ DlNoCall
  /\ clock < horizon
  /\ dl_ready' = install_playwright(import_ok, dry_run_ok, install)
  /\ dl_calls' = <<"install_playwright">>
  /\ IF dl_ready' = "raise"
     THEN \* the exception leaves main(): the interpreter exits with 1
          dl_pc' = "exited" /\ dl_exit' = "1"
     ELSE dl_pc' = "download" /\ dl_exit' = "none"
  /\ dl_csv_path' = "None"
  /\ dl_downloaded' = "none"
  /\ UNCHANGED <<clock, descVars, dlCalls, dlFiles, dl_upd, dl_prev>>

\* main(): "if playwright_ready: csv_path = asyncio.run(download_youtube_charts())"
DlMainDownload(o, csv) ==
  /\ dl_pc = "download"
  /\ o = "saved_unread" => ~csv.utf8
  /\ IF dl_ready = "True"
     THEN /\ dl_csv_path' = download_youtube_charts(o)
          /\ dl_downloaded' = download_youtube_charts(o)
          /\ dl_latest' = IF o \in {"saved", "saved_unread"}
                          THEN [exists |-> TRUE, csv |-> csv]
                          ELSE dl_latest
          /\ dl_calls' = Append(dl_calls, "download_youtube_charts")
     ELSE /\ dl_csv_path' = "None"
          /\ UNCHANGED <<dl_latest, dl_calls, dl_downloaded>>
  /\ dl_pc' = "check"
  /\ UNCHANGED <<clock, descVars, dlCalls, dl_dbs, dl_backups, dl_upd, dl_prev, dl_ready,
                 dl_exit>>

\* "not csv_path or not os.path.exists(csv_path)"
NoCsv(csv_path, latest) == csv_path = "None" \/ ~latest.exists

\* main(): the fallback when no CSV was downloaded, and the return of 1
\* when there is still none
DlMainFallback(fallback_ok) ==
  /\ dl_pc = "check"
  /\ IF NoCsv(dl_csv_path, dl_latest)
     THEN /\ dl_calls' = Append(dl_calls, "create_fallback_file")
          /\ IF fallback_ok
             THEN /\ dl_latest' = [exists |-> TRUE, csv |-> download_create_fallback_file]
                  /\ dl_csv_path' = "latest_chart.csv"
             ELSE /\ dl_csv_path' = "None"
                  /\ UNCHANGED dl_latest
     ELSE UNCHANGED <<dl_calls, dl_latest, dl_csv_path>>
  /\ IF NoCsv(dl_csv_path', dl_latest')
     THEN dl_pc' = "exited" /\ dl_exit' = "1"
     ELSE dl_pc' = "store" /\ dl_exit' = dl_exit
  /\ UNCHANGED <<clock, descVars, dlCalls, dl_dbs, dl_backups, dl_upd, dl_prev, dl_ready,
                 dl_downloaded>>

\* main(): update_sqlite_database(csv_path, week_id) is called
DlMainStore(copy) ==
  /\ dl_pc = "store"
  /\ DlUpdateStart(dl_latest.csv, download_get_week_identifier(clock), "main", copy)
  /\ dl_calls' = Append(dl_calls, "update_sqlite_database")
  /\ dl_pc' = "storing"
  /\ UNCHANGED <<clock, descVars, dlCalls, dl_ready, dl_downloaded, dl_csv_path, dl_exit>>

\* main() from the return of update_sqlite_database to its own
DlMainFinish ==
  /\ dl_pc = "storing"
  /\ dl_upd.pc = "done"
  /\ IF dl_upd.ret = "None"
     THEN /\ dl_exit' = "1"
          /\ UNCHANGED <<dl_dbs, dl_backups, dl_calls>>
     ELSE /\ dl_backups' =
               cleanup_old_backups(dl_backups, clock, (BackupDays * TicksPerWeek) \div 7)
          /\ dl_dbs' = cleanup_old_databases(dl_dbs, clock, DatabaseWeeks)
          /\ dl_calls' = dl_calls \o <<"cleanup_old_backups", "cleanup_old_databases",
                                        "list_available_databases">>
          /\ dl_exit' = "0"
  /\ dl_pc' = "exited"
  \* time passes once the run has stored the chart
  /\ clock' = IF dl_upd.ret = "None" THEN clock ELSE clock + 1
  /\ UNCHANGED <<descVars, dlCalls, dl_latest, dl_upd, dl_prev, dl_ready,
                 dl_downloaded, dl_csv_path>>

\* The process is gone: only the files remain for the next run.
DlProcessEnds ==
  /\ dl_pc = "exited"
  /\ dl_pc' = "idle"
  /\ dl_ready' = "none"
  /\ dl_downloaded' = "none"
  /\ dl_csv_path' = "None"
  /\ dl_calls' = <<>>
  /\ dl_exit' = "none"
  /\ UNCHANGED <<clock, descVars, dlCalls, dlFiles, dl_upd, dl_prev>>

\* runs of main() of 1_download.py and calls of its update_sqlite_database
NextDownload ==
  \/ DlTick(MaxClockDownload)
  \/ \E csv \in {ChartA, ChartLatin1, Unreadable},
        week_id \in 0..download_get_week_identifier(clock), copy \in CopyOutcomes :
       DlUpdateSqliteDatabase(csv, week_id, copy, MaxClockDownload)
  \/ DlUpdateWrite
  \/ \E import_ok, dry_run_ok \in BOOLEAN, install \in InstallResults :
       DlMainInstall(import_ok, dry_run_ok, install, MaxClockDownload)
  \/ \E o \in DownloadOutcomes, csv \in {ChartA, ChartLatin1, Unreadable} :
       DlMainDownload(o, csv)
  \/ \E fallback_ok \in BOOLEAN : DlMainFallback(fallback_ok)
  \/ \E copy \in CopyOutcomes : DlMainStore(copy)
  \/ DlMainFinish
  \/ DlProcessEnds

SpecDownload == Init /\ [][NextDownload]_vars

\* ------------------------------------ cleanup_old_databases on its own
\* the database update_sqlite_database leaves when it is called once, at the
\* start of the week, with that week's identifier
WeekDatabase(week) ==
  DlFile(DlStoredRows(ChartA.rows, week, week * TicksPerWeek), week * TicksPerWeek)

\* the times of the calls: in the weeks the databases are of, and
\* DatabaseWeeks weeks after them
CleanupTimes ==
  (0..MaxClockCleanup)
    \cup {DatabaseWeeks * TicksPerWeek + t : t \in 0..MaxClockCleanup}

\* the values of the parameter `weeks`
CleanupWeeks == {1, 2, DatabaseWeeks}

\* At most two databases, of weeks not after the current one.
InitCleanup ==
  /\ clock \in CleanupTimes
  /\ \E ws \in SUBSET (0..(MaxClockCleanup \div TicksPerWeek)) :
       /\ Cardinality(ws) <= 2
       /\ \A w \in ws : w <= download_get_week_identifier(clock)
       /\ dl_dbs = [w \in ws |-> WeekDatabase(w)]
  /\ db = NoDatabase
  /\ backups = {}
  /\ call = NoCall
  /\ pc = "idle"
  /\ outcome = "none"
  /\ result = PyNone
  /\ download = Unreadable
  /\ calls = <<>>
  /\ exit_status = "none"
  /\ dl_backups = {}
  /\ dl_latest = [exists |-> FALSE, csv |-> Unreadable]
  /\ dl_upd = NoUpdate
  /\ dl_prev = NoUpdate
  /\ dl_pc = "idle"
  /\ dl_ready = "none"
  /\ dl_downloaded = "none"
  /\ dl_csv_path = "None"
  /\ dl_calls = <<>>
  /\ dl_exit = "none"
  /\ dl_clean = NoClean
  /\ dl_try = NoTry

\* cleanup_old_databases(weeks)
DlCleanupOldDatabases(weeks) ==
  /\ dl_pc = "idle" /\ DlNoCall
  /\ dl_dbs' = cleanup_old_databases(dl_dbs, clock, weeks)
  /\ dl_clean' = [op |-> "cleanup_old_databases", arg |-> weeks, at |-> clock,
                  dbs |-> DOMAIN dl_dbs, backups |-> dl_backups]
  /\ UNCHANGED <<clock, descVars, dl_backups, dl_latest, dl_upd, dl_prev, dlMain,
                 dl_try>>

NextCleanup == \E weeks \in CleanupWeeks : DlCleanupOldDatabases(weeks)

SpecCleanup == InitCleanup /\ [][NextCleanup]_vars

\* -------------------------------------- cleanup_old_backups on its own
\* timedelta(days=days) in ticks
DaysInTicks(days) == (days * TicksPerWeek) \div 7

\* the values of the parameter `days`: one week and two
CleanupDays == {BackupDays, 2 * BackupDays}

\* cleanup_old_backups(days)
DlCleanupOldBackups(days) ==
  /\ dl_pc = "idle" /\ DlNoCall
  /\ dl_backups' = cleanup_old_backups(dl_backups, clock, DaysInTicks(days))
  /\ dl_clean' = [op |-> "cleanup_old_backups", arg |-> days, at |-> clock,
                  dbs |-> DOMAIN dl_dbs, backups |-> dl_backups]
  /\ UNCHANGED <<clock, descVars, dl_dbs, dl_latest, dl_upd, dl_prev, dlMain,
                 dl_try>>

\* calls of update_sqlite_database, which makes the backups, and of
\* cleanup_old_backups
NextOldBackups ==
  \/ DlTick(MaxClockOldBackups)
  \/ \E csv \in {ChartA, ChartB}, week_id \in 0..download_get_week_identifier(clock),
        copy \in CopyOutcomes :
       DlUpdateSqliteDatabase(csv, week_id, copy, MaxClockOldBackups)
  \/ DlUpdateWrite
  \/ \E days \in CleanupDays : DlCleanupOldBackups(days)

SpecOldBackups == Init /\ [][NextOldBackups]_vars

\* ---------------------------------- download_youtube_charts on its own
\* the selectors of the strategies, in the order of the source; the fourth
\* is the scan of 'button, paper-icon-button, iron-icon'
Strategies ==
  <<"#download-button", "paper-icon-button[title=download]",
    "button[aria-label*=download]", "all buttons">>

\* How the attempt of a selector can end: "timeout" (wait_for_selector
\* raises), "no_element" (it yields no element: nothing is printed),
\* "no_download" (the click starts no download: expect_download raises),
\* "saved" (the file is saved and returned) and, for #download-button only,
\* "saved_unread" (the file is saved, the browser closed, and reading the
\* file back as UTF-8 raises).
StrategyFailures == {"timeout", "no_element", "no_download"}
StrategyOutcomes == StrategyFailures \cup {"saved", "saved_unread"}

\* How the scan can leave an element: "skipped" (its HTML names no
\* download), "no_download" (clicking it raises or starts none), "saved".
ScanOutcomes == {"skipped", "no_download", "saved"}

\* the files a download can save: charts in UTF-8, or in another encoding
Downloads == {ChartA, ChartB, ChartLatin1}

\* download_youtube_charts up to "5. SEARCHING FOR DOWNLOAD BUTTON": any
\* exception on the way (import, launch, navigation) ends the call with None
DlChartsStart(page_ok) ==
  /\ dl_pc = "idle" /\ DlNoCall
  /\ dl_try.pc \in {"none", "done"}
  /\ dl_try' = IF page_ok THEN [NoTry EXCEPT !.pc = "strategy"]
               ELSE [NoTry EXCEPT !.pc = "done"]
  /\ UNCHANGED <<clock, descVars, dlFiles, dl_upd, dl_prev, dlMain, dl_clean>>

\* one of the three selector strategies, from its "try" to its return or to
\* the end of its "except"
DlChartsStrategy(o, csv) ==
  LET k == Len(dl_try.tried) + 1 IN
  /\ dl_try.pc = "strategy"
  /\ k <= 3
  /\ o = "saved_unread" => k = 1 /\ ~csv.utf8
  /\ o = "saved" /\ k = 1 => csv.utf8
  /\ dl_try.closed => o = "timeout"
  /\ dl_latest' = IF o \in StrategyFailures THEN dl_latest
                  ELSE [exists |-> TRUE, csv |-> csv]
  /\ dl_try' = [dl_try EXCEPT
                  !.tried = Append(@, k),
                  !.ends = Append(@, o),
                  !.saved = IF o \in StrategyFailures THEN @ ELSE Append(@, k),
                  !.closed = @ \/ o \notin StrategyFailures,
                  !.pc = IF o = "saved" THEN "done" ELSE @,
                  !.ret = IF o = "saved" THEN "latest_chart.csv" ELSE @]
  /\ UNCHANGED <<clock, descVars, dl_dbs, dl_backups, dl_upd, dl_prev, dlMain,
                 dl_clean>>

\* the scan starts: query_selector_all finds n elements (it raises on a
\* closed browser, which ends the scan as an empty list does)
DlChartsScanStart(n) ==
  /\ dl_try.pc = "strategy"
  /\ Len(dl_try.tried) = 3
  /\ dl_try.closed => n = 0
  /\ dl_try' = [dl_try EXCEPT !.tried = Append(@, 4), !.buttons = n,
                               !.pc = "scan"]
  /\ UNCHANGED <<clock, descVars, dlFiles, dl_upd, dl_prev, dlMain, dl_clean>>

\* the scan looks at the next element: it is skipped when its HTML names
\* no download or when clicking it raises or starts no download
DlChartsScanButton(o, csv) ==
  /\ dl_try.pc = "scan"
  /\ dl_try.buttons > 0
  /\ dl_latest' = IF o = "saved" THEN [exists |-> TRUE, csv |-> csv] ELSE dl_latest
  /\ dl_try' = [dl_try EXCEPT
                  !.buttons = @ - 1,
                  !.ends = Append(@, o),
                  !.saved = IF o = "saved" THEN Append(@, 4) ELSE @,
                  !.closed = @ \/ o = "saved",
                  !.pc = IF o = "saved" THEN "done" ELSE @,
                  !.ret = IF o = "saved" THEN "latest_chart.csv" ELSE @]
  /\ UNCHANGED <<clock, descVars, dl_dbs, dl_backups, dl_upd, dl_prev, dlMain,
                 dl_clean>>

\* no element is left: "await browser.close()" and "return None"
DlChartsScanEnd ==
  /\ dl_try.pc = "scan"
  /\ dl_try.buttons = 0
  /\ dl_try' = [dl_try EXCEPT !.pc = "done", !.closed = TRUE, !.ret = "None"]
  /\ UNCHANGED <<clock, descVars, dlFiles, dl_upd, dl_prev, dlMain, dl_clean>>

NextCharts ==
  \/ \E page_ok \in BOOLEAN : DlChartsStart(page_ok)
  \/ \E o \in StrategyOutcomes, csv \in Downloads : DlChartsStrategy(o, csv)
  \/ \E n \in 0..MaxButtons : DlChartsScanStart(n)
  \/ \E o \in ScanOutcomes, csv \in Downloads : DlChartsScanButton(o, csv)
  \/ DlChartsScanEnd

SpecCharts == Init /\ [][NextCharts]_vars

\* ------------------------------------------------- claims on 1_descargar
\* the transition is a call of update_sqlite_database
IsUpdateCall == call' # call /\ call'.op = "update_sqlite_database"

\* C1: when the week_hash computed for the CSV already appears in
\* week_control, update_sqlite_database writes nothing (every table and the
\* file itself are as before the call) and returns the database path.
C1_DuplicateWritesNothing ==
  [][(/\ IsUpdateCall
      /\ ReadsUtf8(call'.csv)
      /\ calculate_week_hash(call'.csv.rows) # PyNone
      /\ \E r \in db.week_control :
           r.week_hash = calculate_week_hash(call'.csv.rows))
     => (db' = db /\ call'.ret = "db_path")]_vars

\* C1 witness: a call found its hash in week_control of a database that
\* holds rows, and returned the path.
C1_Witness ==
  /\ call.op = "update_sqlite_database"
  /\ call.known
  /\ call.ret = "db_path"
  /\ Len(db.historical_charts) > 0

\* C2 as claimed: for every CSV, a second call in a row with the same CSV in
\* the same ISO week leaves historical_charts with as many rows as the first
\* call left.
C2_IdempotentAsClaimed ==
  [][(/\ IsUpdateCall
      /\ call.op = "update_sqlite_database"
      /\ call'.csv = call.csv
      /\ call'.week = call.week)
     => Len(db'.historical_charts) = Len(db.historical_charts)]_vars

\* C6: whenever backup_database returns a backup path, at most 5 backup
\* files exist, whatever the number of earlier calls.
C6_AtMostFiveBackups ==
  (call.op = "backup_database" /\ call.ret = "backup_path")
    => Cardinality(backups) <= 5

\* C6 witness: a call that returned a path had files to unlink and left five.
C6_Witness ==
  /\ call.op = "backup_database"
  /\ call.ret = "backup_path"
  /\ call.removed # {}
  /\ Cardinality(backups) = 5

\* C7 as claimed: the backup made by the call is never among the files it
\* deletes, and every file it deletes was made before every file it keeps.
C7_KeepsNewestAsClaimed ==
  (call.op = "backup_database" /\ call.ret = "backup_path")
    => /\ call.made \notin call.removed
       /\ \A r \in call.removed : \A b \in backups : r < b.name

\* C5 as claimed: in a run of main() in which the database existed at the
\* start and update_sqlite_database modified it, a backup holding the
\* contents it had before the run exists when the run ends.
C5_BackupOfModifiedAsClaimed ==
  [][(pc = "branch" /\ pc' = "exited" /\ db.exists /\ db' # db)
     => \E b \in backups' : b.content = db]_vars

\* the functions main() has called
Called == {calls[i] : i \in 1..Len(calls)}

\* C9: every way click_download_button fails to deliver a file leads main()
\* to the branch that calls create_fallback_file.
C9_FailureLeadsToFallback ==
  (pc = "exited" /\ outcome \in ClickFailures)
    => "create_fallback_file" \in Called

\* C9 witness: a run ended in which handling the download raised, and
\* another in which no control was found, would both do; this is the first.
C9_Witness ==
  /\ pc = "exited"
  /\ outcome = "handle_error"
  /\ "create_fallback_file" \in Called

\* C10 as claimed: when click_download_button obtains a file, main() runs
\* save_raw_csv, generate_analysis_csvs, update_sqlite_database,
\* consolidate_weekly_data and archive_for_long_term_storage in this order
\* and the process exits with status 0.
C10_PipelineAsClaimed ==
  (pc = "exited" /\ outcome = "downloaded")
    => /\ calls = <<"backup_database", "click_download_button", "save_raw_csv",
                    "generate_analysis_csvs", "update_sqlite_database",
                    "consolidate_weekly_data", "archive_for_long_term_storage">>
       /\ exit_status = "0"

\* -------------------------------------------------- claims on 1_download
\* the Rank, Track Name, Artist Names and Views of the rows of chart_data
ChartRows(file) ==
  [i \in 1..Len(file.chart_data) |->
     [Rank |-> file.chart_data[i].Rank, Track |-> file.chart_data[i].Track,
      Artist |-> file.chart_data[i].Artist, Views |-> file.chart_data[i].Views]]

\* C3 as claimed: a second call of update_sqlite_database with the same CSV
\* and the same week_id leaves chart_data with the rows the first call left,
\* no row stored twice.
C3_IdempotentAsClaimed ==
  [][(/\ dl_upd.pc = "write" /\ dl_upd'.pc = "done"
      /\ dl_prev.pc = "done" /\ dl_prev.ret = "db_path"
      /\ dl_prev.csv = dl_upd.csv /\ dl_prev.week_id = dl_upd.week_id
      /\ dl_upd.week_id \in DOMAIN dl_dbs)
     => ChartRows(dl_dbs'[dl_upd.week_id]) = ChartRows(dl_dbs[dl_upd.week_id])]_vars

\* C4 as claimed: when the week's database exists at the start of the call,
\* update_sqlite_database does not write to it until a backup holding its
\* contents is in the backup directory.  (At "write" the call has not yet
\* connected to the file.)
C4_BackupBeforeWriteAsClaimed ==
  (dl_upd.pc = "write" /\ dl_upd.week_id \in DOMAIN dl_dbs)
    => \E b \in dl_backups :
         b.week = dl_upd.week_id /\ b.content = dl_dbs[dl_upd.week_id]

\* the functions main() of 1_download.py has called
DlCalled == {dl_calls[i] : i \in 1..Len(dl_calls)}

\* C8 as claimed: create_fallback_file is called exactly when Playwright is
\* not ready or download_youtube_charts returned no path to an existing
\* file, and a run in which the fallback file is created goes on to call
\* update_sqlite_database with the fallback CSV.
C8_FallbackAsClaimed ==
  dl_pc = "exited"
    => /\ ("create_fallback_file" \in DlCalled)
            <=> (dl_ready # "True" \/ dl_downloaded # "latest_chart.csv")
       /\ ("create_fallback_file" \in DlCalled /\ dl_csv_path # "None")
            => /\ "update_sqlite_database" \in DlCalled
               /\ dl_upd.caller = "main"
               /\ dl_upd.csv = download_create_fallback_file

\* C11 as claimed: every run of main() of 1_download.py ends with main()
\* returning; it returns 1 exactly when no CSV file was obtained (neither
\* download nor fallback) or update_sqlite_database returned None, and 0 in
\* every other run.  (A run in which install_playwright raised has left
\* main() without a return.)
C11_ReturnsZeroOrOneAsClaimed ==
  dl_pc = "exited"
    => /\ dl_ready # "raise"
       /\ dl_exit \in {"0", "1"}
       /\ dl_exit = "1"
            <=> \/ NoCsv(dl_csv_path, dl_latest)
                \/ /\ "update_sqlite_database" \in DlCalled
                   /\ dl_upd.ret = "None"

\* C12 as claimed: install_playwright returns True or False and never
\* raises; in particular it returns when the check that imports the
\* playwright package fails.
C12_ReturnsBooleanAsClaimed ==
  "install_playwright" \in DlCalled => dl_ready \in {"True", "False"}

\* the transition is a call of cleanup_old_databases on its own
IsCleanupDatabases ==
  dl_clean' # dl_clean /\ dl_clean'.op = "cleanup_old_databases"

\* the ISO week of the database began less (more) than `weeks` weeks before
\* `now`
BeganLessThan(week, weeks, now) == now - week * TicksPerWeek < weeks * TicksPerWeek
BeganMoreThan(week, weeks, now) == now - week * TicksPerWeek > weeks * TicksPerWeek

\* C13: cleanup_old_databases(weeks) never deletes a database whose ISO week
\* began less than `weeks` weeks before the current time (with 52, the
\* databases of the current week and of the 51 before it survive).
C13_RecentDatabasesSurvive ==
  [][IsCleanupDatabases
     => \A w \in DOMAIN dl_dbs :
          BeganLessThan(w, dl_clean'.arg, clock) => w \in DOMAIN dl_dbs']_vars

\* C13 witness: a call deleted a database and kept one whose week began
\* less than `weeks` weeks before it.
C13_Witness ==
  /\ dl_clean.op = "cleanup_old_databases"
  /\ dl_clean.dbs \ DOMAIN dl_dbs # {}
  /\ \E w \in DOMAIN dl_dbs : BeganLessThan(w, dl_clean.arg, dl_clean.at)

\* C14 as claimed: cleanup_old_databases(weeks) deletes every database
\* whose ISO week began more than `weeks` weeks before the current time.
C14_OldDatabasesDeletedAsClaimed ==
  [][IsCleanupDatabases
     => \A w \in DOMAIN dl_dbs :
          BeganMoreThan(w, dl_clean'.arg, clock) => w \notin DOMAIN dl_dbs']_vars

\* C15 as claimed: cleanup_old_backups(days) never deletes a backup that
\* create_backup_before_update made less than `days` days before the call.
C15_RecentBackupsSurviveAsClaimed ==
  [][(dl_clean' # dl_clean /\ dl_clean'.op = "cleanup_old_backups")
     => \A b \in dl_backups :
          clock - b.name < DaysInTicks(dl_clean'.arg) => b \in dl_backups']_vars

\* the strategies attempted so far are the first ones of the fixed order
TriedInOrder == dl_try.tried = [i \in 1..Len(dl_try.tried) |-> i]

\* C16 as claimed: once the page is loaded, download_youtube_charts attempts
\* its four strategies in the fixed order, the first strategy that saves the
\* file returns it without a later one being attempted, and None is returned
\* only after all four were attempted and none saved the file.
C16_StrategyOrderAsClaimed ==
  /\ TriedInOrder
  /\ dl_try.saved # <<>>
       => /\ dl_try.pc = "done"
          /\ dl_try.ret = "latest_chart.csv"
          /\ dl_try.tried[Len(dl_try.tried)] = dl_try.saved[1]
  /\ (dl_try.pc = "done" /\ dl_try.ret = "None" /\ dl_try.tried # <<>>)
       => dl_try.tried = <<1, 2, 3, 4>> /\ dl_try.saved = <<>>

\* ---------------------------- claims on calculate_week_hash (1_descargar)
\* Rank, Track Name, Artist Names and Views of every row of a chart
KeyRows(rows) ==
  [i \in 1..Len(rows) |->
     [Rank |-> rows[i].Rank, Track |-> rows[i].Track, Artist |-> rows[i].Artist,
      Views |-> rows[i].Views]]

\* the rows of historical_charts that the call made at time t stored
IngestedAt(d, t) ==
  KeyRows(SelectSeq(d.historical_charts, LAMBDA r : r.download_date = t))

\* C17 as claimed: update_sqlite_database skips a CSV as an already stored
\* duplicate only if a CSV ingested before had the same Rank, Track Name,
\* Artist Names and Views in every row.
C17_SkipsOnlySameChartAsClaimed ==
  [][(IsUpdateCall /\ call'.known)
     => \E t \in 0..clock : IngestedAt(db, t) = KeyRows(call'.csv.rows)]_vars
====
